---- MODULE Spec2Model ----
(***************************************************************************)
(* FeatherGate Python client (examples/python/client.py).                  *)
(*                                                                         *)
(* Text is modelled as a sequence of one-character strings, so that        *)
(* startswith, slicing and JSON parsing are computed character by          *)
(* character.  A JSON value is a record with one field that names its      *)
(* type: [num |-> 1], [str |-> <<"H","i">>], [arr |-> <<v1, v2>>],         *)
(* [obj |-> {[k |-> key, v |-> value]}], [lit |-> "null"].                 *)
(***************************************************************************)
EXTENDS Integers, Sequences, FiniteSets, TLC

(* ------------------------------------------------------------------------ *)
(* Bounds of the model                                                      *)
(* ------------------------------------------------------------------------ *)

\* Longest line sequence a decoded response body holds.
MaxLen == 3

\* next() calls a consumer makes: enough to drain any body and to pull again
\* after the end.
MaxPulls == MaxLen + 2

(* ------------------------------------------------------------------------ *)
(* json.loads: Python's JSON decoder on the payloads of the model           *)
(* (integers, strings without escapes, arrays, objects, the constants).     *)
(* ------------------------------------------------------------------------ *)

Digits == <<"0", "1", "2", "3", "4", "5", "6", "7", "8", "9">>

IsDigit(c) == \E d \in 1..10 : Digits[d] = c

DigitVal(c) == (CHOOSE d \in 1..10 : Digits[d] = c) - 1

\* The decoder's WHITESPACE: space, tab, newline, carriage return.
Whitespace == {" ", "\t", "\n", "\r"}

Fail == [ok |-> FALSE]

Ok(v, e) == [ok |-> TRUE, val |-> v, end |-> e]

RECURSIVE SkipWs(_, _)
\* Index of the first character of s at or after i that is not whitespace.
SkipWs(s, i) ==
    IF i <= Len(s) /\ s[i] \in Whitespace THEN SkipWs(s, i + 1) ELSE i

\* s has the characters of w at index i.
HasAt(s, i, w) ==
    /\ i + Len(w) - 1 <= Len(s)
    /\ \A k \in 1..Len(w) : s[i + k - 1] = w[k]

RECURSIVE ScanDigits(_, _)
\* Index after the run of digits of s that starts at i.
ScanDigits(s, i) ==
    IF i <= Len(s) /\ IsDigit(s[i]) THEN ScanDigits(s, i + 1) ELSE i

RECURSIVE DigitsValue(_, _, _)
\* The number written by the digits s[i..j-1].
DigitsValue(s, i, j) ==
    IF i >= j THEN 0 ELSE DigitsValue(s, i, j - 1) * 10 + DigitVal(s[j - 1])

\* NUMBER_RE's integer part: -?(0|[1-9][0-9]*).
ParseNumber(s, i) ==
    LET neg == i <= Len(s) /\ s[i] = "-"
        b   == IF neg THEN i + 1 ELSE i
    IN  IF b > Len(s) \/ ~IsDigit(s[b]) THEN Fail
        ELSE LET e == IF s[b] = "0" THEN b + 1 ELSE ScanDigits(s, b)
                 n == DigitsValue(s, b, e)
             IN  Ok([num |-> IF neg THEN 0 - n ELSE n], e)

RECURSIVE ScanString(_, _)
\* Index of the quote that closes the string whose text starts at i, or 0:
\* an unterminated string, a control character, or an escape.
ScanString(s, i) ==
    IF i > Len(s) THEN 0
    ELSE IF s[i] = "\"" THEN i
    ELSE IF s[i] \in {"\n", "\r", "\t", "\\"} THEN 0
    ELSE ScanString(s, i + 1)

\* scanstring: s[i] is the opening quote.
ParseString(s, i) ==
    LET q == ScanString(s, i + 1)
    IN  IF q = 0 THEN Fail ELSE Ok([str |-> SubSeq(s, i + 1, q - 1)], q + 1)

\* dict assignment: a later pair with the same key replaces the earlier one.
SetItem(pairs, key, v) ==
    {p \in pairs : p.k # key} \cup {[k |-> key, v |-> v]}

RECURSIVE ParseValue(_, _)
RECURSIVE ParseArrayItems(_, _, _)
RECURSIVE ParseObjectItems(_, _, _)

\* JSONArray's loop: i is the index of the next value, acc the values so far.
ParseArrayItems(s, i, acc) ==
    LET r == ParseValue(s, i)
    IN  IF ~r.ok THEN Fail
        ELSE LET j == SkipWs(s, r.end)
             IN  IF j > Len(s) THEN Fail
                 ELSE IF s[j] = "]" THEN Ok([arr |-> Append(acc, r.val)], j + 1)
                 ELSE IF s[j] = ","
                      THEN ParseArrayItems(s, SkipWs(s, j + 1), Append(acc, r.val))
                 ELSE Fail

\* JSONObject's loop: i is the index of the next key's opening quote.
ParseObjectItems(s, i, acc) ==
    IF i > Len(s) \/ s[i] # "\"" THEN Fail
    ELSE LET key == ParseString(s, i)
         IN  IF ~key.ok THEN Fail
             ELSE LET c == SkipWs(s, key.end)
                  IN  IF c > Len(s) \/ s[c] # ":" THEN Fail
                      ELSE LET r == ParseValue(s, SkipWs(s, c + 1))
                           IN  IF ~r.ok THEN Fail
                               ELSE LET j  == SkipWs(s, r.end)
                                        nx == SetItem(acc, key.val.str, r.val)
                                    IN  IF j > Len(s) THEN Fail
                                        ELSE IF s[j] = "}" THEN Ok([obj |-> nx], j + 1)
                                        ELSE IF s[j] = ","
                                             THEN ParseObjectItems(s, SkipWs(s, j + 1), nx)
                                        ELSE Fail

\* scan_once: the value of s that starts at index i.
ParseValue(s, i) ==
    IF i > Len(s) THEN Fail
    ELSE IF s[i] = "\"" THEN ParseString(s, i)
    ELSE IF s[i] = "{"
         THEN LET j == SkipWs(s, i + 1)
              IN  IF j <= Len(s) /\ s[j] = "}" THEN Ok([obj |-> {}], j + 1)
                  ELSE ParseObjectItems(s, j, {})
    ELSE IF s[i] = "["
         THEN LET j == SkipWs(s, i + 1)
              IN  IF j <= Len(s) /\ s[j] = "]" THEN Ok([arr |-> <<>>], j + 1)
                  ELSE ParseArrayItems(s, j, <<>>)
    ELSE IF HasAt(s, i, <<"n", "u", "l", "l">>) THEN Ok([lit |-> "null"], i + 4)
    ELSE IF HasAt(s, i, <<"t", "r", "u", "e">>) THEN Ok([lit |-> "true"], i + 4)
    ELSE IF HasAt(s, i, <<"f", "a", "l", "s", "e">>) THEN Ok([lit |-> "false"], i + 5)
    ELSE IF ParseNumber(s, i).ok THEN ParseNumber(s, i)
    ELSE IF HasAt(s, i, <<"N", "a", "N">>) THEN Ok([lit |-> "NaN"], i + 3)
    ELSE Fail

\* json.loads(s): leading whitespace, one value, trailing whitespace, the end.
\* ok = FALSE is json.JSONDecodeError.
json_loads(s) ==
    LET r == ParseValue(s, SkipWs(s, 1))
    IN  IF r.ok /\ SkipWs(s, r.end) = Len(s) + 1 THEN [ok |-> TRUE, val |-> r.val]
        ELSE Fail

(* ------------------------------------------------------------------------ *)
(* json.dumps with its default separators (", " and ": "): the serialize    *)
(* of a payload that a server puts on a data line.                          *)
(* ------------------------------------------------------------------------ *)

RECURSIVE NatText(_)
NatText(n) ==
    IF n < 10 THEN <<Digits[n + 1]>> ELSE NatText(n \div 10) \o <<Digits[(n % 10) + 1]>>

IntText(n) == IF n < 0 THEN <<"-">> \o NatText(0 - n) ELSE NatText(n)

LitText(l) ==
    CASE l = "null"  -> <<"n", "u", "l", "l">>
      [] l = "true"  -> <<"t", "r", "u", "e">>
      [] l = "false" -> <<"f", "a", "l", "s", "e">>
      [] l = "NaN"   -> <<"N", "a", "N">>

RECURSIVE Serialize(_)
RECURSIVE SerializeItems(_)
RECURSIVE SerializePairs(_)

SerializeItems(vs) ==
    IF vs = <<>> THEN <<>>
    ELSE IF Len(vs) = 1 THEN Serialize(vs[1])
    ELSE Serialize(vs[1]) \o <<",", " ">> \o SerializeItems(Tail(vs))

SerializePairs(ps) ==
    IF ps = {} THEN <<>>
    ELSE LET p    == CHOOSE q \in ps : TRUE
             rest == ps \ {p}
             item == <<"\"">> \o p.k \o <<"\"", ":", " ">> \o Serialize(p.v)
         IN  IF rest = {} THEN item ELSE item \o <<",", " ">> \o SerializePairs(rest)

Serialize(v) ==
    IF "num" \in DOMAIN v THEN IntText(v.num)
    ELSE IF "str" \in DOMAIN v THEN <<"\"">> \o v.str \o <<"\"">>
    ELSE IF "arr" \in DOMAIN v THEN <<"[">> \o SerializeItems(v.arr) \o <<"]">>
    ELSE IF "obj" \in DOMAIN v THEN <<"{">> \o SerializePairs(v.obj) \o <<"}">>
    ELSE LitText(v.lit)

(* ------------------------------------------------------------------------ *)
(* The lines a response body can hold                                       *)
(* ------------------------------------------------------------------------ *)

\* "data: ", the prefix of line 38.
DataPrefix == <<"d", "a", "t", "a", ":", " ">>

\* "[DONE]", the sentinel of line 40.
DoneMarker == <<"[", "D", "O", "N", "E", "]">>

Obj1(key, v) == [obj |-> {[k |-> key, v |-> v]}]

\* {"choices": [{"delta": {"content": "Hi"}}]}
HiChunk ==
    Obj1(<<"c", "h", "o", "i", "c", "e", "s">>,
         [arr |-> <<Obj1(<<"d", "e", "l", "t", "a">>,
                         Obj1(<<"c", "o", "n", "t", "e", "n", "t">>,
                              [str |-> <<"H", "i">>]))>>])

\* The JSON payloads a server serializes onto data lines: [-12, null],
\* {"x": 1}, the chunk of a completion, and the string "[DONE]".
Payloads ==
    {[arr |-> <<[num |-> 0 - 12], [lit |-> "null"]>>], Obj1(<<"x">>, [num |-> 1]),
     HiChunk, [str |-> DoneMarker]}

PayloadLine(P) == DataPrefix \o Serialize(P)

DoneLine == DataPrefix \o DoneMarker

EmptyLine == <<>>

\* "data: bad"
BadLine == <<"d", "a", "t", "a", ":", " ", "b", "a", "d">>

\* "data:1", the prefix without its space
NearMissLine == <<"d", "a", "t", "a", ":", "1">>

\* "event: 1"
EventLine == <<"e", "v", "e", "n", "t", ":", " ", "1">>

\* "data: NaN"
NaNLine == <<"d", "a", "t", "a", ":", " ", "N", "a", "N">>

\* data: {"x":1}, written without json.dumps' spaces
CompactLine == <<"d", "a", "t", "a", ":", " ", "{", "\"", "x", "\"", ":", "1", "}">>

LineSet ==
    {PayloadLine(P) : P \in Payloads}
        \cup {DoneLine, EmptyLine, BadLine, NearMissLine, EventLine, NaNLine, CompactLine}

\* {"choices": [{"message": {"content": "ok"}}]}, the body of a completion
OkBody ==
    <<"{", "\"", "c", "h", "o", "i", "c", "e", "s", "\"", ":", " ", "[", "{", "\"",
      "m", "e", "s", "s", "a", "g", "e", "\"", ":", " ", "{", "\"", "c", "o", "n",
      "t", "e", "n", "t", "\"", ":", " ", "\"", "o", "k", "\"", "}", "}", "]", "}">>

\* The lines of the response bodies that the client operations receive.
BodyLineSet == {OkBody, CompactLine, DoneLine}

\* Lines that hold the sentinel without being "data: [DONE]": a space or a
\* carriage return after it, a space before the prefix, no space after the
\* colon, lower case, and no prefix.
DoneThenSpace == DoneLine \o <<" ">>

DoneThenCR == DoneLine \o <<"\r">>

SpaceThenDone == <<" ">> \o DoneLine

DoneNoSpace == <<"d", "a", "t", "a", ":">> \o DoneMarker

DoneLowerCase == DataPrefix \o <<"[", "d", "o", "n", "e", "]">>

DoneNoPrefix == DoneMarker

SentinelLike ==
    {DoneThenSpace, DoneThenCR, SpaceThenDone, DoneNoSpace, DoneLowerCase, DoneNoPrefix}

AllLines == LineSet \cup BodyLineSet \cup SentinelLike

\* The finite sequences over S of length at most n.
SeqsUpTo(S, n) == UNION {[1..k -> S] : k \in 0..n}

\* What iter_lines() yields: str from a text line source, bytes from
\* requests' Response.iter_lines() (decode_unicode is False by default).
LineKinds == {"str", "bytes"}

(* ------------------------------------------------------------------------ *)
(* State                                                                    *)
(* ------------------------------------------------------------------------ *)

VARIABLES
    lines,      \* the lines response.iter_lines() delivers, in order
    lineKind,   \* the type of those lines: "str" or "bytes"
    pos,        \* how many of them the generator has read
    gen,        \* the generator of _handle_stream: "none" (not created),
                \* "created", "suspended" (at its yield), "done", "raised"
    out,        \* the chunks the consumer has received: [src, chunk], src the
                \* index of the line the chunk was parsed from
    pulls,      \* next() calls the consumer has made
    last,       \* what the latest next() gave: "none", "chunk", "stop", "error"
    call,       \* the client operation performed: "none", "chat", "models", "health"
    args,       \* what the caller passed to it
    sent,       \* the HTTP request the session sent
    resp,       \* the HTTP response the session received
    result,     \* how the operation ended, see Returned and Raised
    errors,     \* the errors raised to the caller, and where
    srcFails,   \* the line source raises, instead of ending, once it has
                \* delivered all of lines
    fetched,    \* how many of lines the client has taken from the transport
    configured, \* the base URL given to the constructor
    base_url,   \* self.base_url
    second      \* the generator of a second streaming call on the same
                \* client: [lines, kind, pos, gen, out, pulls, last]

decoderVars == <<lines, lineKind, pos, gen, out, pulls, last, srcFails, fetched>>

clientVars == <<call, args, sent, resp, result, configured, base_url>>

vars ==
    <<lines, lineKind, pos, gen, out, pulls, last, call, args, sent, resp, result, errors,
      srcFails, fetched, configured, base_url, second>>

(* ------------------------------------------------------------------------ *)
(* FeatherGateClient._handle_stream                                         *)
(* ------------------------------------------------------------------------ *)

\* A prefix test that looks at the length of the line only.
HasDataPrefixLengthOnly(line) == Len(line) >= Len(DataPrefix)

\* line.startswith("data: ")
HasDataPrefix(line) ==
    Len(line) >= Len(DataPrefix) /\ SubSeq(line, 1, Len(DataPrefix)) = DataPrefix

\* line[7:], a slice one character too far.
PayloadOfSeven(line) == SubSeq(line, 8, Len(line))

\* line[6:]
PayloadOf(line) == SubSeq(line, 7, Len(line))

\* data == "DONE", the sentinel compared without its brackets.
IsDoneUnbracketed(data) == data = <<"D", "O", "N", "E">>

\* "[DONE]" in data, the sentinel looked for anywhere in the payload.
IsDoneContained(data) ==
    \E i \in 1..(Len(data) - Len(DoneMarker) + 1) :
        SubSeq(data, i, i + Len(DoneMarker) - 1) = DoneMarker

\* data == "[DONE]"
IsDone(data) == data = DoneMarker

\* continue where the code breaks.
OnSentinelContinue == "continue"

\* if data == "[DONE]": break
OnSentinel == "break"

\* break where the code continues.
OnDecodeErrorBreak == "break"

\* The decode error left to propagate.
OnDecodeErrorRaise == "raise"

\* except json.JSONDecodeError: continue
OnDecodeError == "continue"

\* One pass of the loop body of lines 38 to 45 over a text line: what the
\* generator does with it.
LoopBody(line) ==
    IF ~HasDataPrefix(line) THEN [do |-> "continue"]
    ELSE LET data == PayloadOf(line)
         IN  IF IsDone(data) THEN [do |-> OnSentinel]
             ELSE LET r == json_loads(data)
                  IN  IF r.ok THEN [do |-> "yield", chunk |-> r.val]
                      ELSE [do |-> OnDecodeError]

\* LoopBody on every line of the model, computed once.
LoopBodyOf == [l \in AllLines |-> LoopBody(l)]

\* One pass of the loop body over a line of kind k.  On a bytes line
\* line.startswith("data: ") raises TypeError: "raise".
LineStep(line, k) ==
    IF k = "bytes" THEN [do |-> "raise"] ELSE LoopBodyOf[line]

RECURSIVE Resume(_, _, _)
\* The generator runs from read position p to its next suspension or its end:
\* ev is "yield" (with the chunk), "stop" (the loop ended or broke, why says
\* which) or "raise"; pos is the read position it leaves.
Resume(ls, k, p) ==
    IF p >= Len(ls) THEN [pos |-> p, ev |-> "stop", why |-> "end"]
    ELSE LET st == LineStep(ls[p + 1], k)
         IN  CASE st.do = "continue" -> Resume(ls, k, p + 1)
               [] st.do = "break"    -> [pos |-> p + 1, ev |-> "stop", why |-> "break"]
               [] st.do = "raise"    -> [pos |-> p + 1, ev |-> "raise", why |-> "line"]
               [] st.do = "yield"    -> [pos |-> p + 1, ev |-> "yield", chunk |-> st.chunk]

\* A failing line source whose error is raised at the first resumption,
\* before the lines it delivered are processed.
AdvanceEager(r, fails) ==
    IF fails THEN [pos |-> r.pos, ev |-> "raise", why |-> "source"] ELSE r

\* The run r of the generator over a line source that raises, when fails,
\* where it would end: the for statement of line 37 asks iter_lines() for a
\* line it cannot give, and the error leaves the generator.
Advance(r, fails) ==
    IF fails /\ r.ev = "stop" /\ r.why = "end"
    THEN [pos |-> r.pos, ev |-> "raise", why |-> "source"]
    ELSE r

\* The chunk put before those already received.
DeliverFirst(received, item) == <<item>> \o received

\* The consumer receives a yielded chunk after those it already has.
Deliver(received, item) == Append(received, item)

RECURSIVE Drain(_, _, _, _)
\* list(_handle_stream(response)): the generator consumed to its end from
\* read position p, acc the chunks so far.
Drain(ls, k, p, acc) ==
    LET r == Resume(ls, k, p)
    IN  IF r.ev = "yield" THEN Drain(ls, k, r.pos, Deliver(acc, r.chunk))
        ELSE [chunks |-> acc, end |-> r.ev]

DecodeAll(ls, k) == Drain(ls, k, 0, <<>>)

\* The exception that leaves the generator: the TypeError of line 38 on a
\* line, or the error of the line source.
ErrorType(why) == IF why = "source" THEN "ChunkedEncodingError" ELSE "TypeError"

\* What the run r of the generator leaves: its read position, and the
\* chunk it yielded, its end, or the error it raised.
Resumed(r) ==
    /\ pos' = r.pos
    /\ fetched' = IF r.pos > fetched THEN r.pos ELSE fetched
    /\ CASE r.ev = "yield" ->
              /\ gen' = "suspended"
              /\ out' = Deliver(out, [src |-> r.pos, chunk |-> r.chunk])
              /\ last' = "chunk"
              /\ UNCHANGED errors
         [] r.ev = "stop" ->
              /\ gen' = "done"
              /\ last' = "stop"
              /\ UNCHANGED <<out, errors>>
         [] r.ev = "raise" ->
              /\ gen' = "raised"
              /\ last' = "error"
              /\ errors' = Append(errors, [at |-> "pull", type |-> ErrorType(r.why)])
              /\ UNCHANGED out

\* next(generator)
Pull ==
    /\ gen # "none"
    /\ pulls < MaxPulls
    /\ pulls' = pulls + 1
    /\ IF gen \in {"done", "raised"}
       THEN \* a finished generator raises StopIteration and reads nothing
            /\ last' = "stop"
            /\ UNCHANGED <<pos, gen, out, errors, fetched>>
       ELSE Resumed(Advance(Resume(lines, lineKind, pos), srcFails))
    /\ UNCHANGED <<lines, lineKind, srcFails, second>>
    /\ UNCHANGED clientVars

NoValue == [none |-> TRUE]

\* No second streaming call was made.
NoSecond == [gen |-> "none"]

\* "/"
Slash == "/"

\* rstrip("/") that removes one trailing slash only.
RstripOne(url) ==
    IF url # <<>> /\ url[Len(url)] = Slash THEN SubSeq(url, 1, Len(url) - 1) ELSE url

RECURSIVE Rstrip(_)
\* base_url.rstrip("/"): url without its trailing slashes.
Rstrip(url) ==
    IF url # <<>> /\ url[Len(url)] = Slash THEN Rstrip(SubSeq(url, 1, Len(url) - 1)) ELSE url

\* "http://localhost:8080/v1", the default of line 13
DefaultBase ==
    <<"h", "t", "t", "p", ":", "/", "/", "l", "o", "c", "a", "l", "h", "o", "s", "t",
      ":", "8", "0", "8", "0", "/", "v", "1">>

\* FeatherGateClient(given): __init__ stores the stripped base URL.
Constructed(given) ==
    /\ configured = given
    /\ base_url = Rstrip(given)

\* A client that has made no call.
NoCall ==
    /\ call = "none"
    /\ args = NoValue
    /\ sent = NoValue
    /\ resp = NoValue
    /\ result = NoValue
    /\ errors = <<>>

\* _handle_stream(response) called on a response body: the generator exists
\* and has run nothing yet.
Init ==
    /\ lines \in SeqsUpTo(LineSet, MaxLen)
    /\ lineKind \in LineKinds
    /\ pos = 0
    /\ gen = "created"
    /\ out = <<>>
    /\ pulls = 0
    /\ last = "none"
    /\ call = "none"
    /\ args = NoValue
    /\ sent = NoValue
    /\ resp = NoValue
    /\ result = NoValue
    /\ errors = <<>>
    /\ srcFails = FALSE
    /\ fetched = 0
    /\ Constructed(DefaultBase)
    /\ second = NoSecond

Next == Pull

Spec == Init /\ [][Next]_vars

\* A consumer that keeps pulling: next() is called again whenever it can be.
FairSpec == Spec /\ WF_vars(Pull)

(* ------------------------------------------------------------------------ *)
(* What the claims speak of, stated apart from the decoder's own operators  *)
(* ------------------------------------------------------------------------ *)

\* line begins with the characters of pre.
BeginsWith(line, pre) ==
    Len(line) >= Len(pre) /\ \A k \in 1..Len(pre) : line[k] = pre[k]

\* line without its first six characters.
Rest6(line) == [k \in 1..(Len(line) - 6) |-> line[k + 6]]

\* The chunk values of a received sequence, in order.
Chunks(received) == [k \in 1..Len(received) |-> received[k].chunk]

\* The received chunks that were parsed from line i.
FromLine(i) == {k \in 1..Len(out) : out[k].src = i}

\* Index of the first "data: [DONE]" line of ls, Len(ls) + 1 when it has none.
FirstDone(ls) ==
    IF \E i \in 1..Len(ls) : ls[i] = DoneLine
    THEN CHOOSE i \in 1..Len(ls) :
             ls[i] = DoneLine /\ \A j \in 1..(i - 1) : ls[j] # DoneLine
    ELSE Len(ls) + 1

\* A data line that is not the sentinel.
IsDataLine(line) == BeginsWith(line, DataPrefix) /\ Rest6(line) # DoneMarker

\* A data line whose payload json.loads rejects.
Rejected(line) == IsDataLine(line) /\ ~json_loads(Rest6(line)).ok

\* A data line whose payload json.loads accepts.
Accepted(line) == IsDataLine(line) /\ json_loads(Rest6(line)).ok

RECURSIVE HasNaN(_)
\* v holds NaN, which json.loads accepts and JSON (RFC 8259) does not have.
HasNaN(v) ==
    IF "lit" \in DOMAIN v THEN v.lit = "NaN"
    ELSE IF "arr" \in DOMAIN v THEN \E k \in 1..Len(v.arr) : HasNaN(v.arr[k])
    ELSE IF "obj" \in DOMAIN v THEN \E q \in v.obj : HasNaN(q.v)
    ELSE FALSE

\* s is a JSON text.
ValidJSON(s) == json_loads(s).ok /\ ~HasNaN(json_loads(s).val)

RECURSIVE Without(_, _)
\* ls without its lines that json.loads rejects.
Without(ls, i) ==
    IF i > Len(ls) THEN <<>>
    ELSE IF Rejected(ls[i]) THEN Without(ls, i + 1)
    ELSE <<ls[i]>> \o Without(ls, i + 1)

(* ------------------------------------------------------------------------ *)
(* Claims about _handle_stream, for text lines                              *)
(* ------------------------------------------------------------------------ *)

\* C1: once a line equal to "data: [DONE]" has been read, the generator is
\* done, the read position stays at that line however often the consumer
\* pulls again, and no received chunk comes from a later line.
C1_StopsAtSentinel ==
    lineKind = "str" =>
        \A i \in 1..Len(lines) :
            (i <= pos /\ lines[i] = DoneLine) =>
                /\ pos = i
                /\ gen = "done"
                /\ \A k \in 1..Len(out) : out[k].src < i

\* A chunk was received, the sentinel was read with a payload line still
\* behind it, and the consumer has pulled twice more since.
C1_Witness ==
    /\ lineKind = "str"
    /\ Len(out) = 1
    /\ pos = 2
    /\ Len(lines) = 3
    /\ lines[2] = DoneLine
    /\ lines[3] = PayloadLine(HiChunk)
    /\ pulls >= 4

\* C2: when no line begins with "data: ", nothing is yielded, nothing is
\* raised, and the first pull ends the sequence with every line read.
C2_NoDataNoChunks ==
    (lineKind = "str" /\ \A i \in 1..Len(lines) : ~BeginsWith(lines[i], DataPrefix)) =>
        /\ out = <<>>
        /\ errors = <<>>
        /\ gen # "raised"
        /\ pulls >= 1 => (gen = "done" /\ last = "stop" /\ pos = Len(lines))

\* An empty line, "event: 1" and "data:1" were read and the sequence ended.
C2_Witness ==
    /\ lineKind = "str"
    /\ lines = <<EmptyLine, EventLine, NearMissLine>>
    /\ pulls >= 1
    /\ gen = "done"

\* C3: a line "data: " + serialize(P) that has been read gave exactly one
\* chunk, and that chunk is P.
C3_PayloadRoundTrip ==
    lineKind = "str" =>
        \A i \in 1..pos : \A P \in Payloads :
            lines[i] = DataPrefix \o Serialize(P) =>
                /\ Cardinality(FromLine(i)) = 1
                /\ \A k \in FromLine(i) : out[k].chunk = P

\* The completion chunk and the string "[DONE]" were both received.
C3_Witness ==
    /\ lineKind = "str"
    /\ Len(out) = 2
    /\ out[1].chunk = HiChunk
    /\ lines[out[1].src] = PayloadLine(HiChunk)
    /\ out[2].chunk = [str |-> DoneMarker]

\* C4 as claimed: a data line whose payload is not valid JSON, and is not the
\* sentinel, gives no chunk.
C4_InvalidJSONGivesNoChunk ==
    lineKind = "str" =>
        \A i \in 1..pos :
            (IsDataLine(lines[i]) /\ ~ValidJSON(Rest6(lines[i]))) => FromLine(i) = {}

\* C4, amended: a data line whose payload json.loads rejects gives no chunk,
\* raises nothing and does not end the stream: every accepted data line
\* before the first sentinel is yielded, and the chunks of a finished run are
\* those of the same lines with the rejected lines removed.
C4_SkipsRejected ==
    lineKind = "str" =>
        /\ errors = <<>>
        /\ gen # "raised"
        /\ \A i \in 1..pos : Rejected(lines[i]) => FromLine(i) = {}
        /\ gen = "done" =>
            /\ \A i \in 1..(FirstDone(lines) - 1) : Accepted(lines[i]) => FromLine(i) # {}
            /\ Chunks(out) = DecodeAll(Without(lines, 1), "str").chunks

\* "data: bad" was skipped, the line after it was yielded, and the stream
\* ended at the end of the body.
C4_Witness ==
    /\ lineKind = "str"
    /\ lines = <<BadLine, CompactLine>>
    /\ gen = "done"
    /\ Chunks(out) = <<Obj1(<<"x">>, [num |-> 1])>>

\* C5: the received chunks come from strictly increasing line indices, each
\* from a data line that was read, each the parse of that line's payload.
C5_OrderPreserved ==
    lineKind = "str" =>
        /\ \A k \in 1..(Len(out) - 1) : out[k].src < out[k + 1].src
        /\ \A k \in 1..Len(out) :
               /\ out[k].src \in 1..pos
               /\ BeginsWith(lines[out[k].src], DataPrefix)
               /\ json_loads(Rest6(lines[out[k].src])) = [ok |-> TRUE, val |-> out[k].chunk]

\* Two different payloads around a skipped line, received in line order.
C5_Witness ==
    /\ lineKind = "str"
    /\ Len(out) = 2
    /\ out[1].src = 1
    /\ out[2].src = 3
    /\ out[1].chunk = HiChunk
    /\ out[2].chunk = Obj1(<<"x">>, [num |-> 1])

\* The lines of the body whose payload json.loads accepts.
AcceptedLines == {i \in 1..Len(lines) : Accepted(lines[i])}

\* C6: a body without the sentinel, pulled by a consumer that keeps pulling,
\* leads to the end of the sequence: every line read, nothing raised, one
\* chunk received from each accepted data line.
C6_Terminates ==
    (lineKind = "str" /\ FirstDone(lines) > Len(lines))
        ~> /\ gen = "done"
           /\ pos = Len(lines)
           /\ errors = <<>>
           /\ {out[k].src : k \in 1..Len(out)} = AcceptedLines
           /\ Len(out) = Cardinality(AcceptedLines)

\* A body of three lines without the sentinel was drained: two chunks, one
\* line skipped.
C6_Witness ==
    /\ lineKind = "str"
    /\ FirstDone(lines) > Len(lines)
    /\ Len(lines) = 3
    /\ Rejected(lines[2])
    /\ gen = "done"
    /\ pos = 3
    /\ Len(out) = 2

\* C7: a finished run over L, "data: [DONE]", T has given the consumer what a
\* run over L alone gives: the same chunks, then the same normal end, and
\* nothing else; a run over a body without the sentinel ends the same way.
C7_SentinelLikeClose ==
    (lineKind = "str" /\ gen = "done") =>
        LET alone == DecodeAll(SubSeq(lines, 1, FirstDone(lines) - 1), "str")
        IN  /\ Chunks(out) = alone.chunks
            /\ alone.end = "stop"
            /\ last = "stop"
            /\ errors = <<>>

\* L is one payload line, T another: the run ended at the sentinel between
\* them with the chunk of L alone.
C7_Witness ==
    /\ lineKind = "str"
    /\ gen = "done"
    /\ lines = <<PayloadLine(HiChunk), DoneLine, CompactLine>>
    /\ Len(out) = 1
    /\ last = "stop"

(* ------------------------------------------------------------------------ *)
(* The client operations: FeatherGateClient.chat, and the model listing and *)
(* health check of example_list_models and example_health_check             *)
(* ------------------------------------------------------------------------ *)

\* Longest body, in lines, of a response to a client operation.
MaxBodyLines == 2

Bodies == SeqsUpTo(BodyLineSet, MaxBodyLines)

\* The status codes a server answers with.
Statuses == {200, 304, 404, 500}

Responses == [status : Statuses, kind : LineKinds, body : Bodies]

RECURSIVE JoinLines(_)
\* The text of a body: its lines, each ended by a newline.
JoinLines(b) ==
    IF b = <<>> THEN <<>> ELSE b[1] \o <<"\n">> \o JoinLines(Tail(b))

\* response.json() on every body of the model, computed once.
JsonOf == [b \in Bodies |-> json_loads(JoinLines(b))]

\* raise_for_status() raises HTTPError for 5xx only.
RaisesForServerErrorOnly(status) == 500 <= status /\ status < 600

\* response.raise_for_status(): requests raises HTTPError for 4xx and 5xx.
RaisesForStatus(status) == 400 <= status /\ status < 600

\* The message lists a caller passes.
Conversations ==
    {<<[role |-> "user", content |-> "Hello"]>>,
     <<[role |-> "system", content |-> "Be brief"], [role |-> "user", content |-> "Hello"]>>}

\* The keyword arguments a caller passes to chat beside the positional
\* messages: any subset of model, stream, temperature and messages.
KwKeys == {"model", "stream", "temperature", "messages"}

KwValues == [model : {"gpt-4", "gpt-3.5"}, stream : BOOLEAN, temperature : {1}, messages : {<<>>}]

Keywords == {[k \in D |-> f[k]] : f \in KwValues, D \in SUBSET KwKeys}

\* The named parameters of chat (lines 19 to 21).
ChatParams == {"messages", "model", "stream"}

\* The call binds messages twice: TypeError before the body runs.
BindFails(kw) == "messages" \in DOMAIN kw

\* model: str = "gpt-4"
ModelArg(kw) == IF "model" \in DOMAIN kw THEN kw["model"] ELSE "gpt-4"

\* stream: bool = False
StreamArg(kw) == IF "stream" \in DOMAIN kw THEN kw["stream"] ELSE FALSE

\* **kwargs: the keywords that name no parameter.
ExtraFields(kw) == [k \in (DOMAIN kw) \ ChatParams |-> kw[k]]

\* The body built with "stream": False whatever the argument.
RequestBodyStreamFalse(messages, kw) ==
    ExtraFields(kw) @@ [model |-> ModelArg(kw), messages |-> messages, stream |-> FALSE]

\* data = {"model": model, "messages": messages, "stream": stream, **kwargs}:
\* a key of kwargs would replace an earlier one.
RequestBody(messages, kw) ==
    ExtraFields(kw) @@ [model |-> ModelArg(kw), messages |-> messages, stream |-> StreamArg(kw)]

Raised(type) == [kind |-> "raise", type |-> type]

ReturnedJson(v) == [kind |-> "json", val |-> v]

ReturnedStream == [kind |-> "stream"]

RaiseAtCall(type) ==
    /\ result' = Raised(type)
    /\ errors' = Append(errors, [at |-> "call", type |-> type])

\* return response.json()
ReturnJson(r) ==
    IF JsonOf[r.body].ok
    THEN result' = ReturnedJson(JsonOf[r.body].val) /\ UNCHANGED errors
    ELSE RaiseAtCall("JSONDecodeError")

\* "/chat/completions", "/models" and "/health" as the f-strings append them
ChatPath ==
    <<"/", "c", "h", "a", "t", "/", "c", "o", "m", "p", "l", "e", "t", "i", "o", "n", "s">>

ModelsPath == <<"/", "m", "o", "d", "e", "l", "s">>

HealthPath == <<"/", "h", "e", "a", "l", "t", "h">>

\* f"{self.base_url}{path}"
Endpoint(path) == base_url \o path

\* How many lines of the body the client holds once session.post(url,
\* json=data) has returned: the call does not pass stream=True, so requests
\* reads the whole body before it returns.
FetchedByPost(r) == Len(r.body)

\* client.chat(messages, **kw), answered by r.
Chat(messages, kw, r) ==
    /\ call' = "chat"
    /\ args' = [messages |-> messages, kw |-> kw]
    /\ UNCHANGED <<configured, base_url, second>>
    /\ IF BindFails(kw)
       THEN /\ RaiseAtCall("TypeError")
            /\ UNCHANGED <<sent, resp, decoderVars>>
       ELSE /\ sent' = [method |-> "POST", path |-> "/chat/completions",
                        url |-> Endpoint(ChatPath),
                        json |-> RequestBody(messages, kw)]
            /\ resp' = r
            /\ IF RaisesForStatus(r.status)
               THEN RaiseAtCall("HTTPError") /\ UNCHANGED decoderVars
               ELSE IF StreamArg(kw)
               THEN \* return self._handle_stream(response)
                    /\ result' = ReturnedStream
                    /\ lines' = r.body
                    /\ lineKind' = r.kind
                    /\ pos' = 0
                    /\ gen' = "created"
                    /\ srcFails' = FALSE
                    /\ fetched' = FetchedByPost(r)
                    /\ UNCHANGED <<out, pulls, last, errors>>
               ELSE ReturnJson(r) /\ UNCHANGED decoderVars

\* response = client.session.get(f"{client.base_url}/models");
\* models = response.json()
ListModels(r) ==
    /\ call' = "models"
    /\ args' = NoValue
    /\ sent' = [method |-> "GET", path |-> "/models", url |-> Endpoint(ModelsPath)]
    /\ resp' = r
    /\ ReturnJson(r)
    /\ UNCHANGED decoderVars
    /\ UNCHANGED <<configured, base_url, second>>

\* response = client.session.get(f"{client.base_url}/health");
\* health = response.json()
HealthCheck(r) ==
    /\ call' = "health"
    /\ args' = NoValue
    /\ sent' = [method |-> "GET", path |-> "/health", url |-> Endpoint(HealthPath)]
    /\ resp' = r
    /\ ReturnJson(r)
    /\ UNCHANGED decoderVars
    /\ UNCHANGED <<configured, base_url, second>>

\* The number of trailing slashes a configured base URL carries, at most.
MaxSlashes == 2

\* Base URLs without a trailing slash: the empty one, a host, and one with a
\* slash inside.
Stems == {<<>>, <<"h">>, <<"h", "/", "v">>}

\* n slashes
Slashes(n) == [i \in 1..n |-> Slash]

\* The base URLs given to the constructor.
BaseURLs == {stem \o Slashes(n) : stem \in Stems, n \in 0..MaxSlashes}

\* FeatherGateClient(given): a client that has made no call.
ClientInit ==
    /\ \E given \in BaseURLs : Constructed(given)
    /\ srcFails = FALSE
    /\ fetched = 0
    /\ second = NoSecond
    /\ lines = <<>>
    /\ lineKind = "str"
    /\ pos = 0
    /\ gen = "none"
    /\ out = <<>>
    /\ pulls = 0
    /\ last = "none"
    /\ call = "none"
    /\ args = NoValue
    /\ sent = NoValue
    /\ resp = NoValue
    /\ result = NoValue
    /\ errors = <<>>

\* The client has performed no operation yet: a behaviour follows one
\* operation, and the stream it may return, to the end.
Idle == call = "none"

ChatCall ==
    Idle /\ \E messages \in Conversations, kw \in Keywords, r \in Responses :
                Chat(messages, kw, r)

ListModelsCall == Idle /\ \E r \in Responses : ListModels(r)

HealthCheckCall == Idle /\ \E r \in Responses : HealthCheck(r)

ClientNext == ChatCall \/ ListModelsCall \/ HealthCheckCall \/ Pull

ClientSpec == ClientInit /\ [][ClientNext]_vars

(* ------------------------------------------------------------------------ *)
(* Claims about the client operations                                       *)
(* ------------------------------------------------------------------------ *)

\* The chat call was answered, and with this status.
ChatAnswered(statuses) == call = "chat" /\ resp # NoValue /\ resp.status \in statuses

\* The caller asked chat for a stream.
AskedStream == "stream" \in DOMAIN args.kw /\ args.kw["stream"]

\* C8 as claimed: the error of a streaming chat call answered with a
\* non-success status is raised where the stream is first read, not at the
\* call.
C8_StreamErrorAtFirstRead ==
    (ChatAnswered(Statuses \ (200..299)) /\ AskedStream) =>
        \A k \in 1..Len(errors) : errors[k].at = "pull"

\* C8, amended: a chat call answered with a 4xx or 5xx status raises its one
\* error at the call, streaming or not: no stream is returned and nothing is
\* ever read.
C8_RaisedAtCall ==
    ChatAnswered(400..599) =>
        /\ result = Raised("HTTPError")
        /\ errors = <<[at |-> "call", type |-> "HTTPError"]>>
        /\ gen = "none"
        /\ pulls = 0
        /\ out = <<>>

\* A streaming chat call was answered 404 and raised.
C8_Witness ==
    /\ ChatAnswered({404})
    /\ AskedStream
    /\ result.kind = "raise"

\* C9: after any client operation answered with status 500 an error has been
\* raised to the caller, no body was returned and no chunk was yielded.
C9_Status500Propagates ==
    (call # "none" /\ resp # NoValue /\ resp.status = 500) =>
        /\ result.kind = "raise"
        /\ out = <<>>

\* The value of {"choices": [{"message": {"content": "ok"}}]}.
OkValue ==
    Obj1(<<"c", "h", "o", "i", "c", "e", "s">>,
         [arr |-> <<Obj1(<<"m", "e", "s", "s", "a", "g", "e">>,
                         Obj1(<<"c", "o", "n", "t", "e", "n", "t">>,
                              [str |-> <<"o", "k">>]))>>])

\* C10: the request body of chat holds the model, messages and stream given
\* (the defaults when not given) beside every extra field, and the response
\* is handled as the stream field sent says: without stream the parsed body
\* is returned and no generator exists; with stream the generator over the
\* response's lines is returned and never the body.
C10_RequestAndHandling ==
    (call = "chat" /\ sent # NoValue) =>
        LET kw    == args.kw
            given == [model    |-> IF "model" \in DOMAIN kw THEN kw["model"] ELSE "gpt-4",
                      messages |-> args.messages,
                      stream   |-> IF "stream" \in DOMAIN kw THEN kw["stream"] ELSE FALSE]
        IN  /\ DOMAIN sent.json = {"model", "messages", "stream"} \cup DOMAIN kw
            /\ \A k \in {"model", "messages", "stream"} : sent.json[k] = given[k]
            /\ \A k \in DOMAIN kw : sent.json[k] = kw[k]
            /\ result.kind # "raise" =>
                   IF sent.json["stream"]
                   THEN /\ result = ReturnedStream
                        /\ gen # "none"
                        /\ lines = resp.body
                   ELSE /\ result.kind = "json"
                        /\ json_loads(JoinLines(resp.body)) = [ok |-> TRUE, val |-> result.val]
                        /\ gen = "none"
                        /\ pulls = 0

\* A call with model, temperature and no stream keyword returned the ok body
\* as its value.
C10_Witness ==
    /\ call = "chat"
    /\ DOMAIN args.kw = {"model", "temperature"}
    /\ sent.json["model"] = "gpt-3.5"
    /\ sent.json["temperature"] = 1
    /\ resp.body = <<OkBody>>
    /\ result = ReturnedJson(OkValue)

\* The paths of the three endpoints, by operation.
PathOf ==
    [chat |-> ChatPath, models |-> ModelsPath, health |-> HealthPath]

\* C17: whatever base URL the constructor was given, the stored base is the
\* given one less its trailing slashes, all of them; stripping the stored
\* base again changes nothing; and the URL of every request is the stored
\* base followed by the path of the endpoint, so that exactly one slash
\* stands between them.
C17_BaseJoinedByOneSlash ==
    /\ \E n \in 0..MaxSlashes : configured = base_url \o Slashes(n)
    /\ base_url = <<>> \/ base_url[Len(base_url)] # Slash
    /\ Rstrip(base_url) = base_url
    /\ sent # NoValue =>
           LET b == Len(base_url)
           IN  /\ sent.url = base_url \o PathOf[call]
               /\ sent.url[b + 1] = Slash
               /\ sent.url[b + 2] # Slash
               /\ b > 0 => sent.url[b] # Slash

\* A client configured with "h//" posted a chat request to
\* "h/chat/completions".
C17_Witness ==
    /\ configured = <<"h", "/", "/">>
    /\ call = "chat"
    /\ sent # NoValue
    /\ sent.url = <<"h">> \o ChatPath

\* The lines of the body the client holds: taken from the transport and not
\* yet read by the generator.
Held == fetched - pos

\* C14: in every state of a streaming chat call the client holds at most one
\* line of the response body that it has received and the generator has not
\* yet read, so the whole body is never buffered before the first chunk.
\* The post of line 28 is made without stream=True and reads the whole body
\* before chat returns the generator: a body of two lines is held in full
\* before the first pull.
C14_AtMostOneLineHeld ==
    (call = "chat" /\ result = ReturnedStream) => Held <= 1

(* ------------------------------------------------------------------------ *)
(* _handle_stream over a line source that may fail                          *)
(* ------------------------------------------------------------------------ *)

\* The lines a failing source delivers before it fails: a chunk, the
\* sentinel, a rejected payload and an empty line.
SourceLineSet == {CompactLine, DoneLine, BadLine, EmptyLine}

\* _handle_stream(response) called on a streaming response whose line
\* source delivers lines and then either ends or, with srcFails, raises.
SourceInit ==
    /\ lines \in SeqsUpTo(SourceLineSet, MaxLen)
    /\ lineKind \in LineKinds
    /\ srcFails \in BOOLEAN
    /\ pos = 0
    /\ gen = "created"
    /\ out = <<>>
    /\ pulls = 0
    /\ last = "none"
    /\ fetched = 0
    /\ NoCall
    /\ Constructed(DefaultBase)
    /\ second = NoSecond

SourceSpec == SourceInit /\ [][Next]_vars

\* The error of the line source has been raised to the consumer.
SourceErrorRaised ==
    errors # <<>> /\ errors[Len(errors)].type = ErrorType("source")

\* C12: the generator raises to the consumer only when the line source
\* itself has failed, at the pull that asked for the line after the last
\* delivered one; processing a delivered line never raises.  Violated by
\* the lines requests delivers: iter_lines() yields bytes, and
\* line.startswith("data: ") at line 38 raises TypeError on the first of
\* them.
C12_RaisesOnlyOnSourceFailure ==
    gen = "raised" =>
        /\ srcFails
        /\ pos = Len(lines)
        /\ SourceErrorRaised

\* s is an initial part of t.
IsPrefix(s, t) == Len(s) <= Len(t) /\ \A k \in 1..Len(s) : s[k] = t[k]

\* C13: the chunks the consumer has received are always an initial part of
\* what decoding the delivered lines alone produces, and once the line
\* source has failed after delivering lines, the consumer has received
\* exactly that sequence (for text lines: one chunk from every accepted data
\* line, none of them being followed by a sentinel), every line was read, and
\* the error is the one and last thing raised.
C13_DeliveredChunksStand ==
    /\ IsPrefix(Chunks(out), DecodeAll(lines, lineKind).chunks)
    /\ SourceErrorRaised =>
           /\ Chunks(out) = DecodeAll(lines, lineKind).chunks
           /\ Len(errors) = 1
           /\ gen = "raised"
           /\ pos = Len(lines)
           /\ lineKind = "str" =>
                  /\ FirstDone(lines) = Len(lines) + 1
                  /\ {out[k].src : k \in 1..Len(out)} = AcceptedLines
                  /\ Len(out) = Cardinality(AcceptedLines)

\* Two chunks around a rejected line were received, and then the source
\* failed.
C13_Witness ==
    /\ srcFails
    /\ lineKind = "str"
    /\ lines = <<CompactLine, BadLine, CompactLine>>
    /\ Len(out) = 2
    /\ SourceErrorRaised

(* ------------------------------------------------------------------------ *)
(* _handle_stream over lines that resemble the sentinel                     *)
(* ------------------------------------------------------------------------ *)

\* The sentinel, a chunk, and the lines that resemble the sentinel.
SentinelLineSet == {DoneLine, CompactLine} \cup SentinelLike

SentinelInit ==
    /\ lines \in SeqsUpTo(SentinelLineSet, MaxLen)
    /\ lineKind \in LineKinds
    /\ srcFails = FALSE
    /\ pos = 0
    /\ gen = "created"
    /\ out = <<>>
    /\ pulls = 0
    /\ last = "none"
    /\ fetched = 0
    /\ NoCall
    /\ Constructed(DefaultBase)
    /\ second = NoSecond

SentinelSpec == SentinelInit /\ [][Next]_vars

\* C16: for text lines, the sequence has ended with lines left unread
\* exactly when the last line read is "data: [DONE]", and a sentinel that was
\* read has ended it; a line that resembles the sentinel gives no chunk and
\* does not end the sequence; and when the sequence has ended, every chunk
\* line before the first sentinel has given its chunk, whatever lines
\* resembling the sentinel came before it.
C16_OnlyExactSentinelEnds ==
    lineKind = "str" =>
        /\ (gen = "done" /\ pos < Len(lines)) => lines[pos] = DoneLine
        /\ (\E i \in 1..pos : lines[i] = DoneLine) =>
               gen = "done" /\ pos = FirstDone(lines)
        /\ gen = "done" => pos = FirstDone(lines) \/ pos = Len(lines)
        /\ \A i \in 1..Len(lines) :
               /\ lines[i] \in SentinelLike => FromLine(i) = {}
               /\ (gen = "done" /\ lines[i] = CompactLine /\ i < FirstDone(lines)) =>
                      Cardinality(FromLine(i)) = 1

\* A line with a space after the sentinel and a line with the sentinel alone
\* were passed, the chunk after them was received, and the sequence ended
\* at the end of the lines.
C16_Witness ==
    /\ lineKind = "str"
    /\ lines = <<DoneThenSpace, DoneNoPrefix, CompactLine>>
    /\ gen = "done"
    /\ pos = 3
    /\ Len(out) = 1
    /\ out[1].src = 3

(* ------------------------------------------------------------------------ *)
(* Two generators of one client                                             *)
(* ------------------------------------------------------------------------ *)

\* The longest body of each of two streams.
MaxPairLen == 2

\* The lines of two streams: a chunk, the sentinel and a rejected payload.
PairLineSet == {CompactLine, DoneLine, BadLine}

\* One read position kept for both generators.
CursorShared(g) == pos

\* The read position of generator g: the iterator that line 37 makes from
\* the response given to this call, held in the frame of the generator.
CursorOf(g) == g.pos

\* One list of received chunks for both consumers.
ReceivedShared(g) == out

\* The chunks the consumer of generator g has received from its yields.
ReceivedBy(g) == g.out

\* What the run r of the second generator leaves, as Resumed.
SecondResumed(r) ==
    CASE r.ev = "yield" ->
           /\ second' = [second EXCEPT
                            !.pulls = @ + 1,
                            !.pos = r.pos,
                            !.gen = "suspended",
                            !.last = "chunk",
                            !.out = Deliver(ReceivedBy(second),
                                            [src |-> r.pos, chunk |-> r.chunk])]
           /\ UNCHANGED errors
      [] r.ev = "stop" ->
           /\ second' = [second EXCEPT
                            !.pulls = @ + 1,
                            !.pos = r.pos,
                            !.gen = "done",
                            !.last = "stop"]
           /\ UNCHANGED errors
      [] r.ev = "raise" ->
           /\ second' = [second EXCEPT
                            !.pulls = @ + 1,
                            !.pos = r.pos,
                            !.gen = "raised",
                            !.last = "error"]
           /\ errors' = Append(errors, [at |-> "pull2", type |-> ErrorType(r.why)])

\* next(generator) on the second generator: lines 36 to 45, as Pull.
PullSecond ==
    /\ second.gen # "none"
    /\ second.pulls < MaxPulls
    /\ IF second.gen \in {"done", "raised"}
       THEN /\ second' = [second EXCEPT !.pulls = @ + 1, !.last = "stop"]
            /\ UNCHANGED errors
       ELSE SecondResumed(Resume(second.lines, second.kind, CursorOf(second)))
    /\ UNCHANGED decoderVars
    /\ UNCHANGED clientVars

\* Two streaming responses of one client, each handed to _handle_stream:
\* two generators that have run nothing yet.
PairInit ==
    /\ lines \in SeqsUpTo(PairLineSet, MaxPairLen)
    /\ lineKind \in LineKinds
    /\ srcFails = FALSE
    /\ pos = 0
    /\ gen = "created"
    /\ out = <<>>
    /\ pulls = 0
    /\ last = "none"
    /\ fetched = 0
    /\ NoCall
    /\ Constructed(DefaultBase)
    /\ \E ls \in SeqsUpTo(PairLineSet, MaxPairLen) :
           second = [lines |-> ls, kind |-> lineKind, pos |-> 0, gen |-> "created",
                     out |-> <<>>, pulls |-> 0, last |-> "none"]

PairNext == Pull \/ PullSecond

PairSpec == PairInit /\ [][PairNext]_vars

\* The first generator, as a record like second.
First ==
    [lines |-> lines, kind |-> lineKind, pos |-> pos, gen |-> gen, out |-> out,
     pulls |-> pulls, last |-> last]

\* Generator g has ended.
Ended(g) == g.gen \in {"done", "raised"}

\* C11: two generators over the same lines give the same sequence, whatever
\* the other has done so far: the chunks of the one that is behind are an
\* initial part of the chunks of the other, after equally many pulls the two
\* are in the same state, and once both have ended they have given the same
\* chunks from the same lines and ended the same way at the same line.
C11_SameLinesSameChunks ==
    second.lines = lines =>
        /\ IsPrefix(out, second.out) \/ IsPrefix(second.out, out)
        /\ pulls = second.pulls => second = First
        /\ (Ended(First) /\ Ended(second)) =>
               /\ second.out = out
               /\ second.gen = gen
               /\ second.pos = pos

\* Both generators ran over chunk, rejected line to the end, the second
\* after the first had ended, and both gave the one chunk.
C11_Witness ==
    /\ lineKind = "str"
    /\ lines = <<CompactLine, BadLine>>
    /\ second.lines = lines
    /\ gen = "done"
    /\ second.gen = "done"
    /\ pulls = 2
    /\ second.pulls = 2
    /\ Len(second.out) = 1
    /\ second.out = out

\* Generator g is where a generator running alone over its lines is after
\* g.pulls pulls: it has given the first chunks of its lines, one per pull
\* until they were all given, it stands at the line of its last chunk, and
\* it has ended, at its first sentinel or its last line or the line that
\* raised, once it was pulled beyond its last chunk.
Alone(g) ==
    LET d == DecodeAll(g.lines, g.kind)
        n == Len(d.chunks)
    IN  /\ Len(g.out) = IF g.pulls < n THEN g.pulls ELSE n
        /\ Chunks(g.out) = SubSeq(d.chunks, 1, Len(g.out))
        /\ g.gen = IF g.pulls = 0 THEN "created"
                   ELSE IF g.pulls <= n THEN "suspended"
                   ELSE IF d.end = "raise" THEN "raised" ELSE "done"
        /\ g.gen = "created" => g.pos = 0
        /\ g.gen = "suspended" => g.pos = g.out[Len(g.out)].src
        /\ g.gen = "done" =>
               g.pos = IF FirstDone(g.lines) <= Len(g.lines)
                       THEN FirstDone(g.lines) ELSE Len(g.lines)
        /\ g.gen = "raised" => g.pos = 1

\* C15: under every interleaving of the pulls of two consumers, each
\* generator is where it would be had it run alone over its own lines for
\* as many pulls as its own consumer made: its chunks, its read position and
\* its end do not depend on the pulls of the other.
C15_StreamsDoNotInterfere == Alone(First) /\ Alone(second)

\* The second consumer hit its sentinel at its first line while the first
\* received both chunks of its own lines.
C15_Witness ==
    /\ lineKind = "str"
    /\ lines = <<CompactLine, CompactLine>>
    /\ second.lines = <<DoneLine, CompactLine>>
    /\ second.gen = "done"
    /\ second.pos = 1
    /\ second.out = <<>>
    /\ gen = "suspended"
    /\ Len(out) = 2

====
